---- MODULE Spec2Model ----
(***************************************************************************)
(* AI-Video-Creator: the request-to-artifact pipeline.                     *)
(*                                                                         *)
(* Two deployments of the same pipeline are modelled:                      *)
(*   "express"  server/routes.ts + services/gemini + storage (MemStorage)  *)
(*   "netlify"  the serverless function generate-script (handler)          *)
(* A run looks at one deployment (they are separate processes and share    *)
(* no state).  JavaScript strings are TLA+ strings, JSON objects are       *)
(* functions from their keys to strings, a JSON text is represented by the *)
(* value it parses to (or by its characters when it is not JSON).          *)
(***************************************************************************)
EXTENDS Integers, Sequences, FiniteSets, TLC

VARIABLES
  deployment,   \* "express" | "netlify": the process under observation
  apiKeySet,    \* process.env.GEMINI_API_KEY is set (non-empty)
  geminiClient, \* netlify: the cached GoogleGenAI client exists
  videoScripts, \* MemStorage.videoScripts: the Map, in insertion order
  uuidCount,    \* number of values randomUUID() has returned
  now,          \* the wall clock in ms (new Date(), Date.now())
  pc,           \* per request: position of its handler
  event,        \* per request: the raw request (method, route, body, id)
  data,         \* per request: const data  (the normalized request)
  gen,          \* per request: how generateVideoScript settled
  created,      \* per request: const videoScript (what createVideoScript returned)
  resp,         \* per request: the response sent
  outcome,      \* per request: how the backend call settled
  calls         \* per request: ai.models.generateContent invocations

vars == <<deployment, apiKeySet, geminiClient, videoScripts, uuidCount, now,
          pc, event, data, outcome, gen, created, resp, calls>>

----------------------------------------------------------------------------
(* Bounds *)

MaxRequests == 3
MaxClock == 2

Requests == 1..MaxRequests

----------------------------------------------------------------------------
(* JavaScript helpers *)

\* String.prototype.includes
Includes(s, sub) ==
  \E i \in 1..(Len(s) - Len(sub) + 1) : SubSeq(s, i, i + Len(sub) - 1) = sub

\* obj.key of a JSON object: present or undefined
Has(obj, key) == key \in DOMAIN obj

\* JavaScript truthiness of obj.key when the value is a string or undefined
Truthy(obj, key) == Has(obj, key) /\ obj[key] # ""

EmptyObject == [k \in {} |-> ""]

\* An Error object: its class and its message
Err(class, message) == [class |-> class, message |-> message]

\* error instanceof Error (a thrown string or plain object is not)
InstanceOfError(e) == e.class \in {"Error", "SyntaxError", "TypeError", "ZodError"}

\* JSON values: null, or an object given by its own properties
JNull == [t |-> "null"]
JObj(o) == [t |-> "object", v |-> o]

NullValue == "<null>"

----------------------------------------------------------------------------
(* shared/schema.ts: generateScriptRequestSchema *)

\* Mutant: another default length
DefaultVideoLengthOther == "2-3 minutes"

DefaultVideoLength == "1-2 minutes"
DefaultContentStyle == "Educational"

\* Mutant: the min(1) check is missing
TopicAcceptedNoMin(topic) == Len(topic) >= 0

\* topic: z.string().min(1, "Topic is required")
TopicAccepted(topic) == Len(topic) >= 1

\* The issues zod reports for a raw value (paths of the offending fields)
SchemaIssues(raw) ==
  IF raw.t # "object" THEN {"<root>"}
  ELSE IF ~Has(raw.v, "topic") THEN {"topic"}
  ELSE IF ~TopicAccepted(raw.v.topic) THEN {"topic"}
  ELSE {}

\* The output of a successful parse: defaults fill absent videoLength and
\* contentStyle, an absent targetAudience stays absent, other keys are stripped
SchemaOutput(o) ==
  [k \in {"topic", "videoLength", "contentStyle"} \cup (DOMAIN o \cap {"targetAudience"}) |->
     IF Has(o, k) THEN o[k]
     ELSE IF k = "videoLength" THEN DefaultVideoLength
     ELSE DefaultContentStyle]

\* generateScriptRequestSchema.parse(raw): the data, or a thrown ZodError
SchemaParse(raw) ==
  IF SchemaIssues(raw) = {}
  THEN [ok |-> TRUE, data |-> SchemaOutput(raw.v), issues |-> {}]
  ELSE [ok |-> FALSE, data |-> EmptyObject, issues |-> SchemaIssues(raw)]

----------------------------------------------------------------------------
(* services/gemini: generateVideoScript *)

MsgNoContent == "No content generated from Gemini"
MsgInvalidStructure == "Invalid content structure from Gemini"
MsgKeyNotConfigured == "Gemini API key not configured"
MsgQuota == "Gemini API quota exceeded. Please check your billing."
MsgRateLimit == "Gemini API rate limit exceeded. Please try again in a moment."
MsgFailed == "Failed to generate video script. Please try again."
MsgGetClient == "Gemini API key not configured."

\* if (!content): response.text is undefined or the empty string
NoContent(text) == text.t = "undefined" \/ (text.t = "text" /\ text.chars = "")

\* The SyntaxError JSON.parse throws on characters that are not JSON; its
\* message quotes the offending text on engines that do so (quoting)
JsonSyntaxError(chars, quoting) ==
  Err("SyntaxError",
      IF quoting THEN "Unexpected token, \"" \o chars \o "\" is not valid JSON"
      ELSE "Unexpected token in JSON at position 0")

\* Mutant: only the title is checked
ValidStructureTitleOnly(parsed) == Truthy(parsed, "title")

\* The structure check: title, script and scenes must be truthy
ValidStructure(parsed) ==
  Truthy(parsed, "title") /\ Truthy(parsed, "script") /\ Truthy(parsed, "scenes")

\* The try block after the backend call settled: the value returned, or the
\* error thrown inside the try
TryBody(settled, quoting) ==
  IF settled.kind = "throw" THEN [threw |-> TRUE, error |-> settled.error]
  ELSE IF NoContent(settled.text) THEN [threw |-> TRUE, error |-> Err("Error", MsgNoContent)]
  ELSE IF settled.text.t = "text"
    THEN [threw |-> TRUE, error |-> JsonSyntaxError(settled.text.chars, quoting)]
  ELSE IF settled.text.value.t = "null"
    THEN [threw |-> TRUE,
          error |-> Err("TypeError", "Cannot read properties of null (reading 'title')")]
  ELSE IF ~ValidStructure(settled.text.value.v)
    THEN [threw |-> TRUE, error |-> Err("Error", MsgInvalidStructure)]
  ELSE [threw |-> FALSE, value |-> settled.text.value.v]

\* Mutant: the quota test comes before the credential test
RethrownQuotaFirst(error) ==
  IF InstanceOfError(error)
     /\ (Includes(error.message, "quota") \/ Includes(error.message, "billing"))
    THEN Err("Error", MsgQuota)
  ELSE IF InstanceOfError(error) /\ Includes(error.message, "API key")
    THEN Err("Error", MsgKeyNotConfigured)
  ELSE IF InstanceOfError(error) /\ Includes(error.message, "rate limit")
    THEN Err("Error", MsgRateLimit)
  ELSE Err("Error", MsgFailed)

\* The catch block: the error rethrown for the error caught
Rethrown(error) ==
  IF InstanceOfError(error) /\ Includes(error.message, "API key")
    THEN Err("Error", MsgKeyNotConfigured)
  ELSE IF InstanceOfError(error)
          /\ (Includes(error.message, "quota") \/ Includes(error.message, "billing"))
    THEN Err("Error", MsgQuota)
  ELSE IF InstanceOfError(error) /\ Includes(error.message, "rate limit")
    THEN Err("Error", MsgRateLimit)
  ELSE Err("Error", MsgFailed)

\* Mutant: the artifact returned is completed with the fields it lacks
GenerateSettlesCompleting(settled, quoting) ==
  LET t == TryBody(settled, quoting) IN
  IF t.threw THEN [state |-> "rejected", error |-> Rethrown(t.error)]
  ELSE [state |-> "fulfilled",
        value |-> [k \in DOMAIN t.value \cup {"voiceover", "music"} |->
                     IF k \in DOMAIN t.value THEN t.value[k] ELSE ""]]

\* How the promise of generateVideoScript settles once the backend call did
GenerateSettles(settled, quoting) ==
  LET t == TryBody(settled, quoting) IN
  IF t.threw THEN [state |-> "rejected", error |-> Rethrown(t.error)]
  ELSE [state |-> "fulfilled", value |-> t.value]

----------------------------------------------------------------------------
(* storage: MemStorage *)

\* Mutant: the id generator repeats itself
UUIDRepeating(n) == "uuid-1"

\* randomUUID(): the n-th value it returns
UUID(n) == "uuid-" \o ToString(n)

\* Mutant: the lookup returns the first record whatever the id
getVideoScriptAnyId(map, id) == IF map = <<>> THEN EmptyObject ELSE map[1]

\* Map.get(id): the record stored under id, or undefined (the empty object here)
getVideoScript(map, id) ==
  IF \E i \in DOMAIN map : map[i].id = id
  THEN LET i == CHOOSE i \in DOMAIN map : map[i].id = id IN map[i]
  ELSE EmptyObject

\* Mutant: the record is identified by its topic instead of the fresh id
createVideoScriptIdFromTopic(insertScript, id, createdAt) ==
  [topic |-> insertScript.topic,
   videoLength |-> IF Truthy(insertScript, "videoLength")
                   THEN insertScript.videoLength ELSE "1-2 minutes",
   contentStyle |-> IF Truthy(insertScript, "contentStyle")
                    THEN insertScript.contentStyle ELSE "Educational",
   targetAudience |-> IF Truthy(insertScript, "targetAudience")
                      THEN insertScript.targetAudience ELSE NullValue,
   generatedContent |-> insertScript.generatedContent,
   id |-> insertScript.topic,
   createdAt |-> createdAt]

\* The record createVideoScript builds from insertScript, a fresh id and the time
createVideoScript(insertScript, id, createdAt) ==
  [topic |-> insertScript.topic,
   videoLength |-> IF Truthy(insertScript, "videoLength")
                   THEN insertScript.videoLength ELSE DefaultVideoLength,
   contentStyle |-> IF Truthy(insertScript, "contentStyle")
                    THEN insertScript.contentStyle ELSE DefaultContentStyle,
   targetAudience |-> IF Truthy(insertScript, "targetAudience")
                      THEN insertScript.targetAudience ELSE NullValue,
   generatedContent |-> insertScript.generatedContent,
   id |-> id,
   createdAt |-> createdAt]

\* Mutant: the map is keyed by the topic, so a record replaces the one
\* that has its topic
MapSetKeyedByTopic(map, script) ==
  IF \E i \in DOMAIN map : map[i].topic = script.topic
  THEN [i \in DOMAIN map |-> IF map[i].topic = script.topic THEN script ELSE map[i]]
  ELSE Append(map, script)

\* Map.set(id, script): replaces the value of an existing key in place,
\* appends a new key at the end of the insertion order
MapSet(map, script) ==
  IF \E i \in DOMAIN map : map[i].id = script.id
  THEN [i \in DOMAIN map |-> IF map[i].id = script.id THEN script ELSE map[i]]
  ELSE Append(map, script)

\* Mutant: the comparator orders the oldest record first
compareAscending(a, b) == a.createdAt - b.createdAt

\* The comparator of getRecentVideoScripts:
\* (a, b) => (b.createdAt?.getTime() || 0) - (a.createdAt?.getTime() || 0)
compare(a, b) == b.createdAt - a.createdAt

\* x is placed before the first element the comparator orders after x, and so
\* after every element that compares equal to it
InsertStable(sorted, x) ==
  LET after == {i \in DOMAIN sorted : compare(sorted[i], x) > 0}
      k == IF after = {} THEN Len(sorted) + 1
           ELSE CHOOSE i \in after : \A j \in after : i <= j
  IN SubSeq(sorted, 1, k - 1) \o <<x>> \o SubSeq(sorted, k, Len(sorted))

\* Array.prototype.sort: a stable sort of the array by the comparator
RECURSIVE Sort(_)
Sort(array) ==
  IF array = <<>> THEN <<>>
  ELSE InsertStable(Sort(SubSeq(array, 1, Len(array) - 1)), array[Len(array)])

\* Array.prototype.slice(0, end): a negative end counts from the end of the array
Slice0(array, end) ==
  LET stop == IF end < 0 THEN (IF Len(array) + end < 0 THEN 0 ELSE Len(array) + end)
              ELSE IF end > Len(array) THEN Len(array) ELSE end
  IN SubSeq(array, 1, stop)

\* getRecentVideoScripts(limit): a sorted copy of the Map's values, sliced
getRecentVideoScripts(map, limit) == Slice0(Sort(map), limit)

\* The digits parseInt can read
DigitValue(c) ==
  CASE c = "0" -> 0 [] c = "1" -> 1 [] c = "2" -> 2 [] c = "3" -> 3 [] c = "4" -> 4
    [] c = "5" -> 5 [] c = "6" -> 6 [] c = "7" -> 7 [] c = "8" -> 8 [] c = "9" -> 9
    [] OTHER -> -1

\* The value of the longest prefix of s made of digits, continuing from acc;
\* seen tells whether a digit has been read
RECURSIVE ParseDigits(_, _, _)
ParseDigits(s, acc, seen) ==
  IF Len(s) = 0 \/ DigitValue(SubSeq(s, 1, 1)) < 0 THEN [nan |-> ~seen, n |-> acc]
  ELSE ParseDigits(SubSeq(s, 2, Len(s)), 10 * acc + DigitValue(SubSeq(s, 1, 1)), TRUE)

\* parseInt(q): NaN for undefined and for a string that does not start with
\* an integer, else the integer the string starts with
parseInt(q) ==
  IF q.t = "undefined" THEN [nan |-> TRUE, n |-> 0]
  ELSE IF Len(q.chars) > 0 /\ SubSeq(q.chars, 1, 1) = "-"
    THEN LET p == ParseDigits(SubSeq(q.chars, 2, Len(q.chars)), 0, FALSE)
         IN [nan |-> p.nan, n |-> 0 - p.n]
  ELSE ParseDigits(q.chars, 0, FALSE)

DefaultLimit == 10

\* const limit = parseInt(req.query.limit as string) || 10: NaN and 0 are falsy
LimitOfQuery(q) ==
  IF parseInt(q).nan \/ parseInt(q).n = 0 THEN DefaultLimit ELSE parseInt(q).n

----------------------------------------------------------------------------
(* Inputs *)

\* req.body of the Express route (after the JSON body parser)
Bodies ==
  { EmptyObject,
    [topic |-> ""],
    [topic |-> " "],
    [topic |-> "cats"],
    [topic |-> "cats", videoLength |-> "", contentStyle |-> ""],
    [topic |-> "dogs", videoLength |-> "5 minutes", contentStyle |-> "Funny",
     targetAudience |-> "kids"] }

\* event.body of the serverless function: absent, characters that are not
\* JSON, or a JSON text (given by the value it parses to)
RawBodies ==
  { [t |-> "undefined"], [t |-> "text", chars |-> "topic=cats"], [t |-> "json", value |-> JNull] }
  \cup { [t |-> "json", value |-> JObj(b)] : b \in Bodies }

Methods == {"POST", "OPTIONS", "GET"}

Artifact(title) ==
  [title |-> title, script |-> "{hook,introduction,mainContent,callToAction}",
   scenes |-> "[scene]", voiceover |-> "{voiceover}", music |-> "{music}"]

Without(obj, key) == [k \in DOMAIN obj \ {key} |-> obj[k]]

\* The values a JSON response text of the backend parses to
BackendJson ==
  { JNull, JObj(Artifact("A")), JObj(Artifact("B")), JObj(Artifact("")),
    JObj(Without(Artifact("A"), "scenes")),
    JObj(Without(Artifact("A"), "music")),
    JObj(Without(Artifact("A"), "voiceover")) }

\* The errors the backend call can throw
BackendErrors ==
  { Err("Error", "API key not valid. Please pass a valid API key."),
    Err("Error", "You exceeded your current quota"),
    Err("Error", "billing is not enabled"),
    Err("Error", "rate limit reached"),
    Err("Error", "quota exceeded for this API key"),
    Err("Error", "fetch failed"),
    Err("string", "API key") }

\* How the backend call can settle: it throws, or it returns a response whose
\* text is absent, empty, not JSON, or JSON
BackendOutcomes ==
  { [kind |-> "throw", error |-> e] : e \in BackendErrors }
  \cup { [kind |-> "response", text |-> [t |-> "undefined"]] }
  \cup { [kind |-> "response", text |-> [t |-> "text", chars |-> c]] :
           c \in {"", "hello", "quota", "your API key"} }
  \cup { [kind |-> "response", text |-> [t |-> "json", value |-> v]] : v \in BackendJson }

\* A run with a single request explores every input above; a run with
\* several requests explores these representative inputs
PlainBodies == { [topic |-> ""], [topic |-> "cats"] }

PlainOutcomes ==
  { [kind |-> "throw", error |-> Err("Error", "fetch failed")],
    [kind |-> "response", text |-> [t |-> "json", value |-> JObj(Artifact("A"))]],
    [kind |-> "response", text |-> [t |-> "json", value |-> JObj(Artifact("B"))]] }

PlainRawBodies == { [t |-> "json", value |-> JObj(b)] : b \in PlainBodies }

BodiesOf(r) == IF r = 1 THEN Bodies ELSE PlainBodies
RawBodiesOf(r) == IF r = 1 THEN RawBodies ELSE PlainRawBodies
MethodsOf(r) == IF r = 1 THEN Methods ELSE {"POST"}

----------------------------------------------------------------------------
(* State *)

NoEvent == [method |-> "none", route |-> "none"]
NoOutcome == [kind |-> "none"]
NoGen == [state |-> "none"]
NoResponse == [status |-> 0]

Init ==
  /\ deployment \in {"express", "netlify"}
  /\ apiKeySet \in BOOLEAN
  /\ geminiClient = FALSE
  /\ videoScripts = <<>>
  /\ uuidCount = 0
  /\ now = 0
  /\ pc = [r \in Requests |-> "idle"]
  /\ event = [r \in Requests |-> NoEvent]
  /\ data = [r \in Requests |-> EmptyObject]
  /\ outcome = [r \in Requests |-> NoOutcome]
  /\ gen = [r \in Requests |-> NoGen]
  /\ created = [r \in Requests |-> EmptyObject]
  /\ resp = [r \in Requests |-> NoResponse]
  /\ calls = [r \in Requests |-> 0]

\* Request q carries representative inputs
Representative(q) ==
  /\ \/ event[q].method = "GET"
     \/ event[q].method = "POST" /\ event[q].body \in {JObj(b) : b \in PlainBodies}
     \/ event[q].method = "POST" /\ event[q].body \in PlainRawBodies
  /\ outcome[q] \in PlainOutcomes \cup {NoOutcome}

\* Run to completion: what follows the await of the backend call (the rest of
\* generateVideoScript, the store, the response) runs in microtasks, and no
\* other event is handled before they are done
EventLoopFree == \A p \in Requests : pc[p] \in {"idle", "awaiting", "done"}

\* Requests arrive in order
Arrives(r) ==
  /\ pc[r] = "idle"
  /\ EventLoopFree
  /\ \A q \in Requests : q < r => (pc[q] # "idle" /\ Representative(q))

\* The outcomes explored for the backend call of request r: every outcome in a
\* run with a single request, else the representative ones (one artifact only
\* from the third request on)
OutcomesOf(r) ==
  IF \A q \in Requests \ {r} : pc[q] = "idle" THEN BackendOutcomes
  ELSE IF r <= 2 THEN PlainOutcomes
  ELSE {o \in PlainOutcomes : o.kind = "response" => o.text.value.v.title = "A"}

\* Reading the clock: time has passed since the last reading, or not
ClockReadings == {t \in {now, now + 1} : t <= MaxClock}

----------------------------------------------------------------------------
(* Responses *)

NoHeaders == EmptyObject

\* Mutant: the preflight method is not allowed
CorsHeadersPostOnly ==
  [allowOrigin |-> "*", allowHeaders |-> "Content-Type", allowMethods |-> "POST"]

\* The CORS headers of the serverless function
CorsHeaders ==
  [allowOrigin |-> "*", allowHeaders |-> "Content-Type", allowMethods |-> "POST, OPTIONS"]

Response(status, headers, body) == [status |-> status, headers |-> headers, body |-> body]

\* The ZodError thrown by generateScriptRequestSchema.parse
ZodError(issues) ==
  [class |-> "ZodError",
   message |-> IF "topic" \in issues THEN "Topic is required" ELSE "Required",
   issues |-> issues]

\* routes.ts: the catch block of POST /api/generate-script
ExpressCatch(error) ==
  IF error.class = "ZodError"
    THEN Response(400, NoHeaders,
                  [message |-> "Invalid request data", errors |-> error.issues])
  ELSE IF InstanceOfError(error) /\ Includes(error.message, "API key")
    THEN Response(401, NoHeaders,
                  [message |-> "Gemini API key not configured. Please check your environment variables."])
  ELSE Response(500, NoHeaders, [message |-> MsgFailed])

\* The serverless handler's catch block
HandlerCatch(error) ==
  IF error.class = "ZodError"
    THEN Response(400, CorsHeaders,
                  [message |-> "Invalid request data", errors |-> error.issues])
  ELSE IF InstanceOfError(error) /\ Includes(error.message, "API key")
    THEN Response(401, CorsHeaders,
                  [message |-> "Gemini API key not configured or invalid. Please check your API key."])
  ELSE Response(500, CorsHeaders,
                [message |-> MsgFailed,
                 error |-> IF InstanceOfError(error) THEN error.message ELSE "Unknown error"])

\* The object routes.ts passes to storage.createVideoScript
InsertScript(d, generatedContent) ==
  [k \in DOMAIN d \cup {"generatedContent"} |->
     IF k = "generatedContent" THEN generatedContent ELSE d[k]]

----------------------------------------------------------------------------
(* Express: POST /api/generate-script *)

\* The request arrives: the body is validated and, when valid,
\* generateVideoScript issues the backend call and the handler suspends
ExpressPost(r, body) ==
  /\ deployment = "express"
  /\ Arrives(r)
  /\ event' = [event EXCEPT ![r] =
                 [method |-> "POST", route |-> "/api/generate-script", body |-> JObj(body)]]
  /\ LET p == SchemaParse(JObj(body)) IN
     IF p.ok
     THEN /\ data' = [data EXCEPT ![r] = p.data]
          /\ calls' = [calls EXCEPT ![r] = @ + 1]
          /\ pc' = [pc EXCEPT ![r] = "awaiting"]
          /\ UNCHANGED resp
     ELSE /\ resp' = [resp EXCEPT ![r] = ExpressCatch(ZodError(p.issues))]
          /\ pc' = [pc EXCEPT ![r] = "done"]
          /\ UNCHANGED <<data, calls>>
  /\ UNCHANGED <<deployment, apiKeySet, geminiClient, videoScripts, uuidCount, now,
                 outcome, gen, created>>

\* Mutant: a backend call that throws is issued once more
BackendSettlesWithRetry(r, o, quoting) ==
  /\ pc[r] = "awaiting"
  /\ EventLoopFree
  /\ apiKeySet \/ o.kind = "throw"
  /\ quoting => (o.kind = "response" /\ o.text.t = "text")
  /\ IF o.kind = "throw" /\ calls[r] < 2
     THEN /\ calls' = [calls EXCEPT ![r] = @ + 1]
          /\ UNCHANGED <<outcome, gen, pc>>
     ELSE /\ outcome' = [outcome EXCEPT ![r] = o]
          /\ gen' = [gen EXCEPT ![r] = GenerateSettles(o, quoting)]
          /\ pc' = [pc EXCEPT ![r] = "generated"]
          /\ UNCHANGED calls
  /\ UNCHANGED <<deployment, apiKeySet, geminiClient, videoScripts, uuidCount, now,
                 event, data, created, resp>>

\* The backend call settles and generateVideoScript runs to its return or throw.
\* Without a credential the backend cannot answer with a response.
BackendSettles(r, o, quoting) ==
  /\ pc[r] = "awaiting"
  /\ EventLoopFree
  /\ apiKeySet \/ o.kind = "throw"
  /\ quoting => (o.kind = "response" /\ o.text.t = "text")
  /\ outcome' = [outcome EXCEPT ![r] = o]
  /\ gen' = [gen EXCEPT ![r] = GenerateSettles(o, quoting)]
  /\ pc' = [pc EXCEPT ![r] = "generated"]
  /\ UNCHANGED <<deployment, apiKeySet, geminiClient, videoScripts, uuidCount, now,
                 event, data, created, resp, calls>>

\* generateVideoScript returned: the record is created and stored
ExpressStore(r) ==
  /\ deployment = "express"
  /\ pc[r] = "generated"
  /\ gen[r].state = "fulfilled"
  /\ \E t \in ClockReadings :
       LET script == createVideoScript(InsertScript(data[r], gen[r].value),
                                       UUID(uuidCount + 1), t) IN
       /\ now' = t
       /\ uuidCount' = uuidCount + 1
       /\ videoScripts' = MapSet(videoScripts, script)
       /\ created' = [created EXCEPT ![r] = script]
  /\ pc' = [pc EXCEPT ![r] = "stored"]
  /\ UNCHANGED <<deployment, apiKeySet, geminiClient, event, data, outcome, gen, resp, calls>>

\* The 200 response is sent
ExpressRespond(r) ==
  /\ deployment = "express"
  /\ pc[r] = "stored"
  /\ resp' = [resp EXCEPT ![r] =
                Response(200, NoHeaders, [id |-> created[r].id, content |-> gen[r].value])]
  /\ pc' = [pc EXCEPT ![r] = "done"]
  /\ UNCHANGED <<deployment, apiKeySet, geminiClient, videoScripts, uuidCount, now,
                 event, data, outcome, gen, created, calls>>

\* Mutant: the catch block ends without a response
ExpressFailSilent(r) ==
  /\ deployment = "express"
  /\ pc[r] = "generated"
  /\ gen[r].state = "rejected"
  /\ pc' = [pc EXCEPT ![r] = "done"]
  /\ UNCHANGED <<deployment, apiKeySet, geminiClient, videoScripts, uuidCount, now,
                 event, data, outcome, gen, created, calls, resp>>

\* generateVideoScript threw: the catch block answers
ExpressFail(r) ==
  /\ deployment = "express"
  /\ pc[r] = "generated"
  /\ gen[r].state = "rejected"
  /\ resp' = [resp EXCEPT ![r] = ExpressCatch(gen[r].error)]
  /\ pc' = [pc EXCEPT ![r] = "done"]
  /\ UNCHANGED <<deployment, apiKeySet, geminiClient, videoScripts, uuidCount, now,
                 event, data, outcome, gen, created, calls>>

(* Express: GET /api/video-scripts/:id *)

KnownIds == {UUID(1), UUID(2), "no-such-id"}

ExpressGet(r, id) ==
  /\ deployment = "express"
  /\ Arrives(r)
  /\ event' = [event EXCEPT ![r] =
                 [method |-> "GET", route |-> "/api/video-scripts/:id", id |-> id]]
  /\ LET script == getVideoScript(videoScripts, id) IN
     resp' = [resp EXCEPT ![r] =
                IF script = EmptyObject
                THEN Response(404, NoHeaders, [message |-> "Video script not found"])
                ELSE Response(200, NoHeaders, script)]
  /\ pc' = [pc EXCEPT ![r] = "done"]
  /\ UNCHANGED <<deployment, apiKeySet, geminiClient, videoScripts, uuidCount, now,
                 data, outcome, gen, created, calls>>

(* Express: GET /api/video-scripts *)

\* req.query.limit: absent, or the characters given
LimitQueries ==
  {[t |-> "undefined"]} \cup {[t |-> "string", chars |-> c] : c \in {"abc", "0", "-1", "1"}}

\* Mutant: the values are sorted in place
ExpressListSortingStore(r, q) ==
  /\ deployment = "express"
  /\ Arrives(r)
  /\ event' = [event EXCEPT ![r] =
                 [method |-> "GET", route |-> "/api/video-scripts", limit |-> q]]
  /\ resp' = [resp EXCEPT ![r] =
                Response(200, NoHeaders, getRecentVideoScripts(videoScripts, LimitOfQuery(q)))]
  /\ videoScripts' = Sort(videoScripts)
  /\ pc' = [pc EXCEPT ![r] = "done"]
  /\ UNCHANGED <<deployment, apiKeySet, geminiClient, uuidCount, now,
                 data, outcome, gen, created, calls>>

ExpressList(r, q) ==
  /\ deployment = "express"
  /\ Arrives(r)
  /\ event' = [event EXCEPT ![r] =
                 [method |-> "GET", route |-> "/api/video-scripts", limit |-> q]]
  /\ resp' = [resp EXCEPT ![r] =
                Response(200, NoHeaders, getRecentVideoScripts(videoScripts, LimitOfQuery(q)))]
  /\ pc' = [pc EXCEPT ![r] = "done"]
  /\ UNCHANGED <<deployment, apiKeySet, geminiClient, videoScripts, uuidCount, now,
                 data, outcome, gen, created, calls>>

----------------------------------------------------------------------------
(* The serverless function: handler *)

\* Mutant: the body is read and validated before the credential is checked
HandlerBodyFirst(r, method, body, quoting) ==
  /\ deployment = "netlify"
  /\ Arrives(r)
  /\ event' = [event EXCEPT ![r] =
                 [method |-> method, route |-> "/api/generate-script", body |-> body]]
  /\ LET answer(response) ==
           /\ resp' = [resp EXCEPT ![r] = response]
           /\ pc' = [pc EXCEPT ![r] = "done"]
           /\ UNCHANGED <<data, gen, calls, geminiClient>>
     IN
     IF method = "OPTIONS" THEN answer(Response(200, CorsHeaders, [text |-> ""]))
     ELSE IF method # "POST"
       THEN answer(Response(405, CorsHeaders, [message |-> "Method not allowed"]))
     ELSE IF body.t = "undefined" \/ (body.t = "text" /\ body.chars = "")
       THEN answer(Response(400, CorsHeaders, [message |-> "Request body is required"]))
     ELSE IF body.t = "text"
       THEN answer(HandlerCatch(JsonSyntaxError(body.chars, quoting)))
     ELSE IF ~SchemaParse(body.value).ok
       THEN answer(HandlerCatch(ZodError(SchemaParse(body.value).issues)))
     ELSE IF ~apiKeySet
       THEN answer(Response(401, CorsHeaders,
              [message |-> "Gemini API key not configured. Please set GEMINI_API_KEY in Netlify environment variables."]))
     ELSE \* generateVideoScript(data): getGeminiClient(), then the backend call
          /\ data' = [data EXCEPT ![r] = SchemaParse(body.value).data]
          /\ IF apiKeySet
             THEN /\ geminiClient' = TRUE
                  /\ calls' = [calls EXCEPT ![r] = @ + 1]
                  /\ pc' = [pc EXCEPT ![r] = "awaiting"]
                  /\ UNCHANGED gen
             ELSE /\ gen' = [gen EXCEPT ![r] =
                               [state |-> "rejected",
                                error |-> Rethrown(Err("Error", MsgGetClient))]]
                  /\ pc' = [pc EXCEPT ![r] = "generated"]
                  /\ UNCHANGED <<calls, geminiClient>>
          /\ UNCHANGED resp
  /\ UNCHANGED <<deployment, apiKeySet, videoScripts, uuidCount, now, outcome, created>>

\* The handler runs up to its first await (or to its response)
Handler(r, method, body, quoting) ==
  /\ deployment = "netlify"
  /\ Arrives(r)
  /\ event' = [event EXCEPT ![r] =
                 [method |-> method, route |-> "/api/generate-script", body |-> body]]
  /\ LET answer(response) ==
           /\ resp' = [resp EXCEPT ![r] = response]
           /\ pc' = [pc EXCEPT ![r] = "done"]
           /\ UNCHANGED <<data, gen, calls, geminiClient>>
     IN
     IF method = "OPTIONS" THEN answer(Response(200, CorsHeaders, [text |-> ""]))
     ELSE IF method # "POST"
       THEN answer(Response(405, CorsHeaders, [message |-> "Method not allowed"]))
     ELSE IF ~apiKeySet
       THEN answer(Response(401, CorsHeaders,
              [message |-> "Gemini API key not configured. Please set GEMINI_API_KEY in Netlify environment variables."]))
     ELSE IF body.t = "undefined" \/ (body.t = "text" /\ body.chars = "")
       THEN answer(Response(400, CorsHeaders, [message |-> "Request body is required"]))
     ELSE IF body.t = "text"
       THEN answer(HandlerCatch(JsonSyntaxError(body.chars, quoting)))
     ELSE IF ~SchemaParse(body.value).ok
       THEN answer(HandlerCatch(ZodError(SchemaParse(body.value).issues)))
     ELSE \* generateVideoScript(data): getGeminiClient(), then the backend call
          /\ data' = [data EXCEPT ![r] = SchemaParse(body.value).data]
          /\ IF apiKeySet
             THEN /\ geminiClient' = TRUE
                  /\ calls' = [calls EXCEPT ![r] = @ + 1]
                  /\ pc' = [pc EXCEPT ![r] = "awaiting"]
                  /\ UNCHANGED gen
             ELSE /\ gen' = [gen EXCEPT ![r] =
                               [state |-> "rejected",
                                error |-> Rethrown(Err("Error", MsgGetClient))]]
                  /\ pc' = [pc EXCEPT ![r] = "generated"]
                  /\ UNCHANGED <<calls, geminiClient>>
          /\ UNCHANGED resp
  /\ UNCHANGED <<deployment, apiKeySet, videoScripts, uuidCount, now, outcome, created>>

\* generateVideoScript returned: the 200 response carries an id made of the time
HandlerRespond(r) ==
  /\ deployment = "netlify"
  /\ pc[r] = "generated"
  /\ gen[r].state = "fulfilled"
  /\ \E t \in ClockReadings :
       /\ now' = t
       /\ resp' = [resp EXCEPT ![r] =
                     Response(200, CorsHeaders,
                              [id |-> "script-" \o ToString(t), content |-> gen[r].value])]
  /\ pc' = [pc EXCEPT ![r] = "done"]
  /\ UNCHANGED <<deployment, apiKeySet, geminiClient, videoScripts, uuidCount,
                 event, data, outcome, gen, created, calls>>

\* generateVideoScript threw: the catch block answers
HandlerFail(r) ==
  /\ deployment = "netlify"
  /\ pc[r] = "generated"
  /\ gen[r].state = "rejected"
  /\ resp' = [resp EXCEPT ![r] = HandlerCatch(gen[r].error)]
  /\ pc' = [pc EXCEPT ![r] = "done"]
  /\ UNCHANGED <<deployment, apiKeySet, geminiClient, videoScripts, uuidCount, now,
                 event, data, outcome, gen, created, calls>>

----------------------------------------------------------------------------

Next ==
  \/ \E r \in Requests : \E body \in BodiesOf(r) : ExpressPost(r, body)
  \/ \E r \in Requests : \E o \in OutcomesOf(r), quoting \in BOOLEAN :
       BackendSettles(r, o, quoting)
  \/ \E r \in Requests : ExpressStore(r)
  \/ \E r \in Requests : ExpressRespond(r)
  \/ \E r \in Requests : ExpressFail(r)
  \/ \E r \in Requests, id \in KnownIds : ExpressGet(r, id)
  \/ \E r \in Requests, q \in LimitQueries : ExpressList(r, q)
  \/ \E r \in Requests : \E method \in MethodsOf(r), body \in RawBodiesOf(r), quoting \in BOOLEAN :
       Handler(r, method, body, quoting)
  \/ \E r \in Requests : HandlerRespond(r)
  \/ \E r \in Requests : HandlerFail(r)

Spec == Init /\ [][Next]_vars

\* What follows the await of the backend call is run by the event loop: the
\* continuation of a handler whose call has settled is not postponed for ever
Continues(r) ==
  ExpressStore(r) \/ ExpressRespond(r) \/ ExpressFail(r) \/ HandlerRespond(r) \/ HandlerFail(r)

FairSpec == Spec /\ WF_vars(\E r \in Requests : Continues(r))

----------------------------------------------------------------------------
(* Vocabulary of the properties *)

IsPost(r) == event[r].method = "POST"
IsGet(r) == event[r].method = "GET" /\ event[r].route = "/api/video-scripts/:id"
IsList(r) == event[r].method = "GET" /\ event[r].route = "/api/video-scripts"
Answered(r) == pc[r] = "done"

\* The request body is a JSON object
HasObjectBody(r) ==
  /\ IsPost(r)
  /\ IF deployment = "express" THEN event[r].body.t = "object"
     ELSE event[r].body.t = "json" /\ event[r].body.value.t = "object"

BodyObject(r) == IF deployment = "express" THEN event[r].body.v ELSE event[r].body.value.v

\* generateVideoScript was invoked for request r
GenerateInvoked(r) == IsPost(r) /\ pc[r] # "idle" /\ data[r] # EmptyObject

\* generateVideoScript has settled for request r
Settled(r) == gen[r].state \in {"fulfilled", "rejected"}

\* The failure kinds a caller of generateVideoScript can observe
AuthenticationFailure == Err("Error", "Gemini API key not configured")
QuotaExceeded == Err("Error", "Gemini API quota exceeded. Please check your billing.")
RateLimited ==
  Err("Error", "Gemini API rate limit exceeded. Please try again in a moment.")
\* what an unclassified backend failure is rethrown as
UpstreamUnknownFailure == Rethrown(Err("Error", "fetch failed"))
\* what a text that is not JSON is rethrown as (on an engine that does not quote it)
UpstreamMalformedResponse ==
  GenerateSettles([kind |-> "response", text |-> [t |-> "text", chars |-> "hello"]], FALSE).error

Posts200 == {r \in Requests : IsPost(r) /\ Answered(r) /\ resp[r].status = 200}

----------------------------------------------------------------------------
(* C1 *)

TopicMissing(r) ==
  HasObjectBody(r) /\ (~Has(BodyObject(r), "topic") \/ BodyObject(r).topic = "")

NoBody(r) ==
  /\ deployment = "netlify" /\ IsPost(r)
  /\ event[r].body.t = "undefined" \/ (event[r].body.t = "text" /\ event[r].body.chars = "")

----------------------------------------------------------------------------
(* C2 *)

\* String.prototype.trim, restricted to the space character
RECURSIVE Trim(_)
Trim(s) ==
  IF Len(s) = 0 THEN s
  ELSE IF SubSeq(s, 1, 1) = " " THEN Trim(SubSeq(s, 2, Len(s)))
  ELSE IF SubSeq(s, Len(s), Len(s)) = " " THEN Trim(SubSeq(s, 1, Len(s) - 1))
  ELSE s

\* C2 as stated: a topic that is non-empty but only whitespace is rejected by
\* request validation: a validation error, no backend call, no stored record.
C2_AsStated ==
  \A r \in Requests :
    (pc[r] # "idle" /\ HasObjectBody(r) /\ Has(BodyObject(r), "topic")
       /\ BodyObject(r).topic # "" /\ Trim(BodyObject(r).topic) = "") =>
      /\ calls[r] = 0
      /\ created[r] = EmptyObject
      /\ Answered(r) /\ resp[r].status \in {400, 401}

----------------------------------------------------------------------------
(* C3 *)

OnlyTopic(r) ==
  HasObjectBody(r) /\ DOMAIN BodyObject(r) = {"topic"} /\ BodyObject(r).topic # ""

\* C3: for every request that sets only a non-empty topic, the normalized
\* request passed to generation has videoLength "1-2 minutes" and contentStyle
\* "Educational", and targetAudience stays unset.
C3_DefaultsApplied ==
  \A r \in Requests :
    (OnlyTopic(r) /\ calls[r] > 0) =>
      data[r] = [topic |-> BodyObject(r).topic,
                 videoLength |-> "1-2 minutes",
                 contentStyle |-> "Educational"]

C3_Witness ==
  \E r \in Requests :
    /\ OnlyTopic(r) /\ BodyObject(r).topic = "cats"
    /\ Answered(r) /\ resp[r].status = 200
    /\ ~Has(data[r], "targetAudience")

----------------------------------------------------------------------------
(* C4 *)

\* C4 as stated: with the credential unset every invocation of
\* generateVideoScript fails with AuthenticationFailure and makes no backend call.
C4_AsStated ==
  \A r \in Requests :
    (~apiKeySet /\ GenerateInvoked(r)) =>
      /\ calls[r] = 0
      /\ Settled(r) => gen[r] = [state |-> "rejected", error |-> AuthenticationFailure]

----------------------------------------------------------------------------
(* C5 *)

NotJsonText(r) ==
  /\ outcome[r].kind = "response"
  /\ outcome[r].text.t = "text"
  /\ outcome[r].text.chars # ""

\* C5 as stated: every non-empty response text that is not JSON makes
\* generateVideoScript fail with UpstreamMalformedResponse, a kind distinct from
\* AuthenticationFailure, QuotaExceeded, RateLimited and UpstreamUnknownFailure.
C5_AsStated ==
  \A r \in Requests :
    (NotJsonText(r) /\ Settled(r)) =>
      /\ gen[r].state = "rejected"
      /\ gen[r].error \notin
           {AuthenticationFailure, QuotaExceeded, RateLimited, UpstreamUnknownFailure}

----------------------------------------------------------------------------
(* C6 *)

JsonObject(r) ==
  /\ outcome[r].kind = "response"
  /\ outcome[r].text.t = "json"
  /\ outcome[r].text.value.t = "object"

Parsed(r) == outcome[r].text.value.v

\* C6 as stated: JSON in which title, script or scenes is missing makes
\* generateVideoScript fail with UpstreamMalformedResponse and return no
\* artifact; the failure is not the catch-all unknown failure.
C6_AsStated ==
  \A r \in Requests :
    (JsonObject(r) /\ Settled(r)
       /\ (~Has(Parsed(r), "title") \/ ~Has(Parsed(r), "script") \/ ~Has(Parsed(r), "scenes"))) =>
      /\ gen[r].state = "rejected"
      /\ gen[r].error # UpstreamUnknownFailure

----------------------------------------------------------------------------
(* C7 *)

\* C7 as stated: JSON that has title, script and scenes but lacks voiceover or
\* music makes generateVideoScript fail: no artifact is returned, nothing stored.
C7_AsStated ==
  \A r \in Requests :
    (JsonObject(r) /\ Settled(r)
       /\ Truthy(Parsed(r), "title") /\ Truthy(Parsed(r), "script") /\ Truthy(Parsed(r), "scenes")
       /\ (~Has(Parsed(r), "voiceover") \/ ~Has(Parsed(r), "music"))) =>
      /\ gen[r].state = "rejected"
      /\ created[r] = EmptyObject

----------------------------------------------------------------------------
(* C8 *)

EmptyText(r) ==
  /\ outcome[r].kind = "response"
  /\ \/ outcome[r].text.t = "undefined"
     \/ outcome[r].text.t = "text" /\ outcome[r].text.chars = ""

\* C8 as stated: a response without text makes generateVideoScript fail with
\* UpstreamEmptyResponse, a failure the caller can tell apart from
\* UpstreamMalformedResponse and from UpstreamUnknownFailure.
C8_AsStated ==
  \A r \in Requests :
    (EmptyText(r) /\ Settled(r)) =>
      /\ gen[r].state = "rejected"
      /\ gen[r].error # UpstreamMalformedResponse
      /\ gen[r].error # UpstreamUnknownFailure

----------------------------------------------------------------------------
(* C9 *)

\* C9: against the Express handler the number of stored records equals the
\* number of POST requests answered 200 plus those that have stored their record
\* and are about to answer 200, so that the two numbers agree whenever every
\* request that arrived has been answered; a POST answered with an error has
\* created no record, and a POST answered 200 has created exactly the record
\* whose id it returns.
C9_StoreCountsSuccesses ==
  deployment = "express" =>
    /\ Len(videoScripts) =
         Cardinality(Posts200) + Cardinality({r \in Requests : pc[r] = "stored"})
    /\ \A r \in Requests :
         (IsPost(r) /\ Answered(r)) =>
           IF resp[r].status = 200
           THEN created[r] # EmptyObject /\ resp[r].body.id = created[r].id
           ELSE created[r] = EmptyObject /\ resp[r].status \in {400, 401, 500}

C9_Witness ==
  /\ deployment = "express"
  /\ \A r \in Requests : IsPost(r) /\ Answered(r)
  /\ Cardinality(Posts200) = 2
  /\ Len(videoScripts) = 2
  /\ videoScripts[1].topic = videoScripts[2].topic
  /\ \E r \in Requests : resp[r].status = 500

----------------------------------------------------------------------------
(* C10 *)

\* C10: for every record r returned by createVideoScript, in every later state
\* (whatever was created since) getVideoScript(r.id) is a record equal to r in
\* every field, the id and the creation time included, and so is the body of a
\* GET /api/video-scripts/:id answered 200 for that id.
C10_RoundTrip ==
  \A r \in Requests :
    created[r] # EmptyObject =>
      /\ getVideoScript(videoScripts, created[r].id) = created[r]
      /\ \A g \in Requests :
           (IsGet(g) /\ Answered(g) /\ event[g].id = created[r].id /\ resp[g].status = 200) =>
             resp[g].body = created[r]

C10_Witness ==
  \E r, q, g \in Requests :
    /\ r < q /\ q < g
    /\ created[r] # EmptyObject /\ created[q] # EmptyObject
    /\ videoScripts = <<created[r], created[q]>>
    /\ created[r].topic = created[q].topic
    /\ IsGet(g) /\ Answered(g) /\ event[g].id = created[r].id
    /\ resp[g] = Response(200, NoHeaders, created[r])

----------------------------------------------------------------------------
(* C11 *)

\* The last n records created, the newest first (all of them when n exceeds
\* their number); the Map keeps the records in creation order
NewestFirst(map, n) ==
  LET m == IF n < Len(map) THEN n ELSE Len(map)
  IN [i \in 1..m |-> map[Len(map) + 1 - i]]

\* i and j are positions of the store; the record at i is listed before the
\* record at j: it was created at a later time, or at the same time and earlier
ListedBefore(map, i, j) ==
  \/ map[i].createdAt > map[j].createdAt
  \/ map[i].createdAt = map[j].createdAt /\ i < j

\* The position in the store of the k-th record listed
RankedAt(map, k) ==
  CHOOSE i \in DOMAIN map :
    Cardinality({j \in DOMAIN map : ListedBefore(map, j, i)}) = k - 1

\* The limits looked at: each one up to the number of records, and one more
ListLimits == 1..(Len(videoScripts) + 1)

----------------------------------------------------------------------------
(* C12 *)

\* C12 as stated: GET /api/video-scripts?limit=N answers 200 with
\* min(max(N, 0), count) records for every integer N, 0 and the negative ones
\* included, and with at most 10 records when limit is absent or not a number.
C12_AsStated ==
  \A g \in Requests :
    (IsList(g) /\ Answered(g)) =>
      /\ resp[g].status = 200
      /\ IF parseInt(event[g].limit).nan
         THEN Len(resp[g].body) <= 10
         ELSE LET N == parseInt(event[g].limit).n
                  atMost == IF N > 0 THEN N ELSE 0
              IN /\ Len(resp[g].body) <= atMost
                 /\ \E count \in 0..Len(videoScripts) :
                      Len(resp[g].body) = IF atMost < count THEN atMost ELSE count

----------------------------------------------------------------------------
(* C13 *)

\* C13 as stated: in either entry point, once a POST /api/generate-script is
\* answered 200 {id, content}, the store holds under that id a record whose
\* generated artifact equals content (it was stored before the response was
\* sent), so that a later GET /api/video-scripts/:id with that id finds it; a
\* GET answered 200 for that id carries that record.
C13_AsStated ==
  \A r \in Requests :
    (IsPost(r) /\ Answered(r) /\ resp[r].status = 200) =>
      LET script == getVideoScript(videoScripts, resp[r].body.id) IN
      /\ script # EmptyObject
      /\ script.generatedContent = resp[r].body.content
      /\ \A g \in Requests :
           (IsGet(g) /\ Answered(g) /\ event[g].id = resp[r].body.id
              /\ resp[g].status = 200) =>
             resp[g].body = script

----------------------------------------------------------------------------
(* C14 *)

\* The records created so far in this process
Created == {created[r] : r \in Requests} \ {EmptyObject}

\* C14: every step that handles a GET /api/video-scripts/:id leaves the store as
\* it is and answers 200 with the record when the id is the id of a record
\* created earlier in this process, and 404 for every other id.
C14_LookupByIdentity ==
  [][\A g \in Requests :
       (pc[g] = "idle" /\ pc'[g] = "done"
          /\ event'[g].method = "GET" /\ event'[g].route = "/api/video-scripts/:id") =>
         /\ videoScripts' = videoScripts
         /\ IF \E s \in Created : s.id = event'[g].id
            THEN \E s \in Created :
                   s.id = event'[g].id /\ resp'[g] = Response(200, NoHeaders, s)
            ELSE resp'[g].status = 404]_vars

C14_Witness ==
  \E g, r, h \in Requests :
    /\ g < r /\ r < h
    /\ created[r] # EmptyObject
    /\ IsGet(g) /\ Answered(g) /\ event[g].id = created[r].id /\ resp[g].status = 404
    /\ IsGet(h) /\ Answered(h) /\ event[h].id = created[r].id
    /\ resp[h] = Response(200, NoHeaders, created[r])

----------------------------------------------------------------------------
(* C15 *)

\* The request body is not a valid request: it is absent, not JSON, not an
\* object, or its topic is missing or empty
InvalidBody(r) == IsPost(r) /\ (~HasObjectBody(r) \/ TopicMissing(r))

\* The backend refused the credential
InvalidCredential(r) ==
  outcome[r] = [kind |-> "throw",
                error |-> Err("Error", "API key not valid. Please pass a valid API key.")]

\* C15 as stated: a POST /api/generate-script that fails is answered 400 exactly
\* when request validation fails, 401 exactly when the credential is missing or
\* invalid, and 500 for every other failure (quota, rate limit, empty,
\* malformed or unknown upstream failure), which is never reported as 401.
\* (When the body is invalid and the credential is missing too, either status
\* is taken to agree with the claim.)
C15_AsStated ==
  \A r \in Requests :
    (IsPost(r) /\ Answered(r) /\ resp[r].status # 200) =>
      IF InvalidBody(r)
        THEN resp[r].status \in (IF apiKeySet THEN {400} ELSE {400, 401})
      ELSE IF ~apiKeySet \/ InvalidCredential(r) THEN resp[r].status = 401
      ELSE resp[r].status = 500

----------------------------------------------------------------------------
(* C16 *)

\* C16 as stated: the serverless handler, with the credential present, answers
\* 400 to every POST whose body is not a valid request, a body that is not
\* well-formed JSON included, and does not invoke the backend for it.
C16_AsStated ==
  \A r \in Requests :
    (deployment = "netlify" /\ apiKeySet /\ Answered(r) /\ InvalidBody(r)) =>
      /\ resp[r].status = 400
      /\ calls[r] = 0

----------------------------------------------------------------------------
(* C17 *)

\* The backend calls issued for the requests 1..n
RECURSIVE SumCalls(_)
SumCalls(n) == IF n = 0 THEN 0 ELSE calls[n] + SumCalls(n - 1)

\* C17: with the credential present every invocation of generateVideoScript
\* issues exactly one backend call, at its start, and none is added when the
\* call fails or when an identical request was served before: the calls issued
\* are as many as the invocations, and no call is issued without an invocation.
C17_OneCallPerInvocation ==
  apiKeySet =>
    /\ \A r \in Requests : calls[r] = IF GenerateInvoked(r) THEN 1 ELSE 0
    /\ SumCalls(MaxRequests) = Cardinality({r \in Requests : GenerateInvoked(r)})

C17_Witness ==
  \E r, q \in Requests :
    /\ r < q /\ apiKeySet
    /\ GenerateInvoked(r) /\ GenerateInvoked(q) /\ data[r] = data[q]
    /\ Answered(r) /\ gen[r].state = "rejected"
    /\ Answered(q) /\ gen[q].state = "fulfilled"
    /\ SumCalls(MaxRequests) = 2

----------------------------------------------------------------------------
(* C18 *)

\* C18 as stated: within one entry point, the ids returned by any two
\* successful POST /api/generate-script requests differ, also when both
\* complete within the same millisecond.
C18_AsStated ==
  \A r, q \in Posts200 : r # q => resp[r].body.id # resp[q].body.id

----------------------------------------------------------------------------
(* C19 *)

\* C19: no step (create, get, list, or any other) removes, replaces, changes
\* or moves a stored record: every record of the store is, after the step, at
\* its place with every field as before, and its id still maps to it.
C19_RecordsRetained ==
  [][\A i \in DOMAIN videoScripts :
       /\ i \in DOMAIN videoScripts'
       /\ videoScripts'[i] = videoScripts[i]
       /\ getVideoScript(videoScripts', videoScripts[i].id) = videoScripts[i]]_vars

C19_Witness ==
  \E r, q, g \in Requests :
    /\ r < q /\ q < g
    /\ created[r] # EmptyObject /\ created[q] # EmptyObject
    /\ created[r].createdAt < created[q].createdAt
    /\ IsList(g) /\ Answered(g) /\ resp[g].body = <<created[q], created[r]>>
    /\ videoScripts = <<created[r], created[q]>>

----------------------------------------------------------------------------
(* C20 *)

\* The requests that created a record
Creators == {r \in Requests : created[r] # EmptyObject}

\* C20: in the Express process, however the handlers of concurrent requests
\* interleave, every request that has created its record finds it in the store
\* under its own id, with the normalized request and the artifact generated for
\* that request; no two requests share an id, the store holds one record per
\* creating request (none lost, none overwritten), and the id a 200 response
\* returns maps to the artifact that response carries.
C20_NoWriteConflict ==
  deployment = "express" =>
    /\ \A r \in Creators :
         LET script == getVideoScript(videoScripts, created[r].id) IN
         /\ script = created[r]
         /\ script.topic = data[r].topic
         /\ script.generatedContent = gen[r].value
         /\ \A q \in Creators : q # r => created[q].id # created[r].id
    /\ Len(videoScripts) = Cardinality(Creators)
    /\ \A r \in Posts200 :
         /\ r \in Creators
         /\ resp[r].body.id = created[r].id
         /\ resp[r].body.content =
              getVideoScript(videoScripts, resp[r].body.id).generatedContent

\* Two requests overlapped (the second one stored its record first) and got
\* different artifacts
C20_Witness ==
  \E r, q \in Posts200 :
    /\ deployment = "express"
    /\ r < q
    /\ videoScripts = <<created[q], created[r]>>
    /\ data[r] = data[q]
    /\ gen[r].value.title = "A" /\ gen[q].value.title = "B"

----------------------------------------------------------------------------
(* C21 *)

\* C21: the content of every 200 response to a POST is the value the backend's
\* JSON text parses to, field for field, and in the Express process the
\* generatedContent of the record created for the request, and of the record
\* the store holds under the id returned, is that same value.
C21_ArtifactUnchanged ==
  \A r \in Posts200 :
    /\ JsonObject(r)
    /\ resp[r].body.content = Parsed(r)
    /\ deployment = "express" =>
         /\ created[r].generatedContent = Parsed(r)
         /\ getVideoScript(videoScripts, resp[r].body.id).generatedContent = Parsed(r)

\* An artifact without its music field went through as it was
C21_Witness ==
  \E r \in Posts200 :
    /\ deployment = "express"
    /\ Parsed(r) = Without(Artifact("A"), "music")
    /\ resp[r].body.content = Without(Artifact("A"), "music")
    /\ videoScripts[1].generatedContent = Without(Artifact("A"), "music")

----------------------------------------------------------------------------
(* C22 *)

\* What went wrong upstream, told from the outcome of the backend call itself
UpstreamCategory(o) ==
  IF o.kind = "throw"
  THEN CASE o.error \in {Err("Error", "You exceeded your current quota"),
                         Err("Error", "billing is not enabled"),
                         Err("Error", "quota exceeded for this API key")} -> "quota"
         [] o.error = Err("Error", "rate limit reached") -> "rate limit"
         [] o.error = Err("Error", "API key not valid. Please pass a valid API key.")
              -> "credential"
         [] OTHER -> "unknown"
  ELSE IF o.kind # "response" THEN "none"
  ELSE IF NoContent(o.text) THEN "empty"
  ELSE IF o.text.t = "text" \/ o.text.value.t # "object" THEN "malformed"
  ELSE IF ~ValidStructure(o.text.value.v) THEN "malformed"
  ELSE "none"

UpstreamCategories == {"quota", "rate limit", "empty", "malformed", "unknown"}

\* The body the entry point answers with when generateVideoScript ends as
\* the outcome o of the backend call makes it end
FailureBody(o, quoting) ==
  IF deployment = "express" THEN ExpressCatch(GenerateSettles(o, quoting).error).body
  ELSE HandlerCatch(GenerateSettles(o, quoting).error).body

\* The text the backend produced: the message of its error or its response text
Original(o) ==
  IF o.kind = "throw" THEN o.error.message
  ELSE IF o.text.t = "text" THEN o.text.chars ELSE ""

\* C22 as stated: in both entry points the body answered to an upstream failure
\* is the body any other failure of the same category gets, and it contains
\* neither the backend's error message nor its response text.
C22_AsStated ==
  \A r \in Requests :
    (IsPost(r) /\ Answered(r) /\ apiKeySet
       /\ UpstreamCategory(outcome[r]) \in UpstreamCategories) =>
      /\ \A o \in BackendOutcomes, quoting \in BOOLEAN :
           UpstreamCategory(o) = UpstreamCategory(outcome[r]) =>
             FailureBody(o, quoting) = resp[r].body
      /\ Original(outcome[r]) # "" =>
           /\ ~Includes(resp[r].body.message, Original(outcome[r]))
           /\ Has(resp[r].body, "error") =>
                ~Includes(resp[r].body.error, Original(outcome[r]))

----------------------------------------------------------------------------
(* C23 *)

\* C23: the serverless handler answers every OPTIONS request with status 200
\* and an empty body, whatever the credential state and the body, without
\* validating the body or calling the backend; every response of the handler
\* carries the CORS headers that allow any origin, the methods POST and
\* OPTIONS and the header Content-Type.
C23_Preflight ==
  deployment = "netlify" =>
    \A r \in Requests :
      Answered(r) =>
        /\ resp[r].headers =
             [allowOrigin |-> "*", allowHeaders |-> "Content-Type",
              allowMethods |-> "POST, OPTIONS"]
        /\ event[r].method = "OPTIONS" =>
             /\ resp[r].status = 200
             /\ resp[r].body = [text |-> ""]
             /\ calls[r] = 0 /\ data[r] = EmptyObject /\ gen[r] = NoGen

\* A preflight with a body that is not JSON, the credential unset
C23_Witness ==
  \E r \in Requests :
    /\ deployment = "netlify" /\ ~apiKeySet
    /\ event[r].method = "OPTIONS" /\ event[r].body = [t |-> "text", chars |-> "topic=cats"]
    /\ Answered(r) /\ resp[r].status = 200

----------------------------------------------------------------------------
(* C24 *)

\* C24 as stated: the record stored for a request has the topic, videoLength
\* and contentStyle of the normalized request that was passed to
\* generateVideoScript (the values the prompt was built from), also when the
\* caller sent videoLength or contentStyle as the empty string, and its
\* videoLength and contentStyle are never null.
C24_AsStated ==
  \A r \in Requests :
    created[r] # EmptyObject =>
      /\ created[r].topic = data[r].topic
      /\ created[r].videoLength = data[r].videoLength
      /\ created[r].contentStyle = data[r].contentStyle
      /\ created[r].videoLength # NullValue /\ created[r].contentStyle # NullValue

----------------------------------------------------------------------------
(* C25 *)

\* C25: in every reachable state every record of the store holds an artifact
\* (an object, not null) in which title, script and scenes are present; a
\* request whose generation failed has created no record.
C25_StoredArtifactsValid ==
  /\ \A i \in DOMAIN videoScripts :
       /\ {"title", "script", "scenes"} \subseteq DOMAIN videoScripts[i].generatedContent
       /\ videoScripts[i].generatedContent.title # ""
       /\ videoScripts[i].generatedContent.script # ""
       /\ videoScripts[i].generatedContent.scenes # ""
  /\ \A r \in Requests :
       (gen[r].state # "fulfilled") => created[r] = EmptyObject

\* An artifact that has title, script and scenes (and no voiceover) is stored
C25_Witness ==
  \E r \in Requests :
    /\ deployment = "express" /\ Answered(r) /\ resp[r].status = 200
    /\ JsonObject(r) /\ Parsed(r) = Without(Artifact("A"), "voiceover")
    /\ Len(videoScripts) = 1
    /\ videoScripts[1].generatedContent = Parsed(r)

----------------------------------------------------------------------------
(* C26 *)

\* C26: in the serverless handler with GEMINI_API_KEY unset, every POST is
\* answered at once with 401 and the message that names the credential,
\* whatever its body (absent, not JSON, invalid or valid): nothing is parsed
\* or validated, generateVideoScript is not invoked, no backend call is made,
\* and the answer is never a 500.
C26_CredentialFirst ==
  (deployment = "netlify" /\ ~apiKeySet) =>
    \A r \in Requests :
      IsPost(r) =>
        /\ Answered(r)
        /\ resp[r].status = 401
        /\ resp[r].body =
             [message |-> "Gemini API key not configured. Please set GEMINI_API_KEY in Netlify environment variables."]
        /\ calls[r] = 0 /\ data[r] = EmptyObject /\ gen[r] = NoGen

C26_Witness ==
  \E r \in Requests :
    /\ deployment = "netlify" /\ ~apiKeySet /\ IsPost(r)
    /\ event[r].body = [t |-> "text", chars |-> "topic=cats"]
    /\ resp[r].status = 401

----------------------------------------------------------------------------
(* C27 *)

\* The statuses a request can be answered with
StatusesOf(r) ==
  IF IsPost(r) THEN {200, 400, 401, 500}
  ELSE IF deployment = "netlify"
    THEN (IF event[r].method = "OPTIONS" THEN {200} ELSE {405})
  ELSE {200, 404}

\* The handler of request r is past its backend call and has not answered yet
Continuing(r) == pc[r] \in {"generated", "stored"}

\* C27: a handler whose backend call has settled (resolved or failed)
\* eventually sends a response: whenever a handler is past its backend call
\* and has not answered, a moment follows when none is, and a handler leaves
\* that position only by answering.  A handler is done exactly when it has
\* sent its response; a POST is answered 200 {id, content} or with status 400,
\* 401 or 500 (the serverless handler answers OPTIONS with 200 and other
\* methods with 405); a response once sent is never followed by another one.
C27_ExactlyOneResponse ==
  /\ (\E r \in Requests : Continuing(r)) ~> (\A r \in Requests : ~Continuing(r))
  /\ [][\A r \in Requests :
          /\ (Continuing(r) /\ ~Continuing(r)') => (Answered(r)' /\ resp'[r] # NoResponse)
          /\ resp[r] # NoResponse => resp'[r] = resp[r]]_vars
  /\ [](\A r \in Requests :
          /\ Answered(r) <=> resp[r] # NoResponse
          /\ Answered(r) => resp[r].status \in StatusesOf(r)
          /\ (Answered(r) /\ IsPost(r) /\ resp[r].status = 200) =>
               DOMAIN resp[r].body = {"id", "content"})

C27_Witness ==
  \E r, q \in Requests :
    /\ IsPost(r) /\ Answered(r) /\ gen[r].state = "rejected" /\ resp[r].status = 500
    /\ IsPost(q) /\ Answered(q) /\ gen[q].state = "fulfilled" /\ resp[q].status = 200
    /\ DOMAIN resp[q].body = {"id", "content"}

----------------------------------------------------------------------------
(* C28 *)

\* What a POST comes to in an entry point, as a function of the JSON value of
\* its body, the credential state and the outcome of the backend call (if the
\* call is made): the status, the content of a 200, the backend calls made
PostResult(entry, raw, keySet, o, quoting) ==
  LET early(status) == [status |-> status, content |-> EmptyObject, calls |-> 0]
      generated(catch(_)) ==
        LET g == GenerateSettles(o, quoting) IN
        IF g.state = "fulfilled" THEN [status |-> 200, content |-> g.value, calls |-> 1]
        ELSE [status |-> catch(g.error).status, content |-> EmptyObject, calls |-> 1]
  IN
  IF entry = "express"
  THEN IF ~SchemaParse(raw).ok THEN early(400) ELSE generated(ExpressCatch)
  ELSE IF ~keySet THEN early(401)
       ELSE IF ~SchemaParse(raw).ok THEN early(400)
       ELSE generated(HandlerCatch)

\* What request r came to
Observed(r) ==
  [status |-> resp[r].status,
   content |-> IF resp[r].status = 200 THEN resp[r].body.content ELSE EmptyObject,
   calls |-> calls[r]]

\* The outcomes the backend call of request r had, or could have had if the
\* call was not made
OutcomesFor(r) ==
  IF outcome[r] # NoOutcome THEN {outcome[r]}
  ELSE {o \in BackendOutcomes : apiKeySet \/ o.kind = "throw"}

OtherEntry == IF deployment = "express" THEN "netlify" ELSE "express"

RawBody(r) == IF deployment = "express" THEN event[r].body ELSE event[r].body.value

\* C28 as stated: for every request body, credential state and backend
\* outcome, the other entry point comes to the same status, the same content
\* on success and the same number of backend calls as the entry point that
\* handled the request.
C28_AsStated ==
  \A r \in Requests :
    (IsPost(r) /\ Answered(r) /\ HasObjectBody(r)) =>
      /\ \E o \in OutcomesFor(r), quoting \in BOOLEAN :
           Observed(r) = PostResult(deployment, RawBody(r), apiKeySet, o, quoting)
      /\ \A o \in OutcomesFor(r), quoting \in BOOLEAN :
           Observed(r) = PostResult(deployment, RawBody(r), apiKeySet, o, quoting) =>
             Observed(r) = PostResult(OtherEntry, RawBody(r), apiKeySet, o, quoting)

----------------------------------------------------------------------------
(* C29 *)

\* The message the claim gives to a failure whose original message is msg
ClassifiedMessage(msg) ==
  CASE Includes(msg, "API key") -> "Gemini API key not configured"
    [] ~Includes(msg, "API key") /\ (Includes(msg, "quota") \/ Includes(msg, "billing"))
         -> "Gemini API quota exceeded. Please check your billing."
    [] ~Includes(msg, "API key") /\ ~Includes(msg, "quota") /\ ~Includes(msg, "billing")
         /\ Includes(msg, "rate limit")
         -> "Gemini API rate limit exceeded. Please try again in a moment."
    [] OTHER -> "Failed to generate video script. Please try again."

\* C29: whenever generateVideoScript fails after its backend call settled, the
\* error it throws is an Error with one of the four fixed messages: for an
\* original failure that is an Error (thrown by the backend call, by the empty
\* text check, by JSON.parse or by the structure check) the message chosen
\* from the original message by first match of "API key", then "quota" or
\* "billing", then "rate limit", else the generic one; for a thrown value that
\* is not an Error, the generic one.
C29_FirstMatchClassification ==
  \A r \in Requests :
    (gen[r].state = "rejected" /\ outcome[r] # NoOutcome) =>
      \E quoting \in BOOLEAN :
        LET original == TryBody(outcome[r], quoting).error IN
        /\ quoting => (outcome[r].kind = "response" /\ outcome[r].text.t = "text")
        /\ gen[r].error.class = "Error"
        /\ gen[r].error.message =
             IF original.class = "string"
             THEN "Failed to generate video script. Please try again."
             ELSE ClassifiedMessage(original.message)

\* A failure whose message matches both "API key" and "quota"
C29_Witness ==
  \E r \in Requests :
    /\ outcome[r] = [kind |-> "throw", error |-> Err("Error", "quota exceeded for this API key")]
    /\ gen[r] = [state |-> "rejected", error |-> Err("Error", "Gemini API key not configured")]

====
